---- MODULE Spec2Model ----
(***************************************************************************)
(* Model of StandardRobotPpRos2Node (standard_robot_pp_ros2.hpp): the      *)
(* serial-port supervisor thread (serialPortProtect), the receive thread   *)
(* (receiveData), the send thread (sendData) and the /cmd_vel callback     *)
(* (updateCmdVel), sharing usb_is_ok_, the serial port and                 *)
(* send_robot_cmd_data_.                                                   *)
(*                                                                         *)
(* packet_typedef.hpp and crc8_crc16.hpp are not among the sources; the    *)
(* frame layout, the sentinels, the message ids and the two checksums are  *)
(* modelled from the specification's sections 3, 4.1, 4.2 and 6.           *)
(***************************************************************************)
EXTENDS Integers, Sequences, FiniteSets, TLC

(***************************************************************************)
(* Bounds of the model.                                                    *)
(***************************************************************************)
\* non-sentinel bytes in front of the first frame of the inbound stream
MaxGarbage == 2
\* transport calls (open, receive, send) that fail although the port is fine
MaxFaults == 1
\* consecutive back-off iterations of a loop that are counted
MaxNotOk == 2
\* /cmd_vel messages delivered
MaxUpdates == 2
\* frames the send loop writes
MaxSends == 2

(***************************************************************************)
(* Bit arithmetic on naturals.                                             *)
(***************************************************************************)
\* bitwise exclusive or, bit by bit from the lowest
XorBits[a \in Nat, b \in Nat] ==
  IF a = 0 THEN b
  ELSE IF b = 0 THEN a
  ELSE (((a % 2) + (b % 2)) % 2) + 2 * XorBits[a \div 2, b \div 2]

XorN(a, b) == XorBits[a, b]

\* n rounds of the reflected shift register: crc = (crc & 1) ? (crc >> 1) ^ poly : crc >> 1
ShiftRounds[crc \in Nat, poly \in Nat, n \in Nat] ==
  IF n = 0 THEN crc
  ELSE ShiftRounds[IF crc % 2 = 1 THEN XorN(crc \div 2, poly) ELSE crc \div 2, poly, n - 1]

ShiftXor(crc, poly, n) == ShiftRounds[crc, poly, n]

(***************************************************************************)
(* Checksum utilities (specification 4.1): CRC8 over a header region,      *)
(* CRC16 over a packet region, the CRC16 stored little-endian.             *)
(***************************************************************************)
CRC8_INIT == 255
CRC8_POLY == 140
CRC16_INIT == 65535
CRC16_POLY == 33800

\* the 256-entry tables of the table-driven checksums
CRC8_TABLE == [i \in 0..255 |-> ShiftXor(i, CRC8_POLY, 8)]
CRC16_TABLE == [i \in 0..255 |-> ShiftXor(i, CRC16_POLY, 8)]

\* crc = table[crc ^ byte] for every byte
Crc8Fold[crc \in Nat, bytes \in Seq(Nat)] ==
  IF bytes = <<>> THEN crc
  ELSE Crc8Fold[CRC8_TABLE[XorN(crc, Head(bytes))], Tail(bytes)]

Crc8From(crc, bytes) == Crc8Fold[crc, bytes]

get_CRC8_check_sum(bytes) == Crc8From(CRC8_INIT, bytes)

\* crc = (crc >> 8) ^ table[(crc ^ byte) & 0xff] for every byte
Crc16Fold[crc \in Nat, bytes \in Seq(Nat)] ==
  IF bytes = <<>> THEN crc
  ELSE Crc16Fold[XorN(crc \div 256, CRC16_TABLE[XorN(crc % 256, Head(bytes))]), Tail(bytes)]

Crc16From(crc, bytes) == Crc16Fold[crc, bytes]

get_CRC16_check_sum(bytes) == Crc16From(CRC16_INIT, bytes)

\* the first n elements of s
Take(s, n) == SubSeq(s, 1, n)

\* verify: the checksum of all bytes but the last equals the last byte
verify_CRC8_check_sum(bytes) ==
  /\ Len(bytes) > 1
  /\ get_CRC8_check_sum(Take(bytes, Len(bytes) - 1)) = bytes[Len(bytes)]

\* append: the last byte of the region is overwritten by the checksum of the others
append_CRC8_check_sum(bytes) ==
  Take(bytes, Len(bytes) - 1) \o <<get_CRC8_check_sum(Take(bytes, Len(bytes) - 1))>>

\* verify: the checksum of all bytes but the last two equals the last two, low byte first
verify_CRC16_check_sum(bytes) ==
  /\ Len(bytes) > 2
  /\ LET c == get_CRC16_check_sum(Take(bytes, Len(bytes) - 2))
     IN  /\ bytes[Len(bytes) - 1] = c % 256
         /\ bytes[Len(bytes)] = c \div 256

\* append: the last two bytes of the region are overwritten by the checksum of the others
append_CRC16_check_sum(bytes) ==
  LET c == get_CRC16_check_sum(Take(bytes, Len(bytes) - 2))
  IN  Take(bytes, Len(bytes) - 2) \o <<c % 256, c \div 256>>

(***************************************************************************)
(* Frame layout (specification 3 and 6; the header is 4 bytes on the wire  *)
(* as the code reads 1 + 3 bytes and subtracts 4 + 2 from the frame size). *)
(***************************************************************************)
SOF_RECEIVE == 90
SOF_SEND == 165

ID_DEBUG == 1
ID_IMU == 2
ID_EVENT_DATA == 4
ID_PID_DEBUG == 5
ID_ALL_ROBOT_HP == 6
ID_GAME_STATUS == 7
ID_ROBOT_MOTION == 8
ID_GROUND_ROBOT_POSITION == 9
ID_RFID_STASTUS == 10
ID_ROBOT_STATUS == 11
ID_GIMBAL_CMD == 12
ID_SHOOT_CMD == 13
ID_ROBOT_CMD == 1

\* sizeof(HeaderFrame)
HeaderSize == 4

\* fromVector<HeaderFrame>: fixed-offset field extraction, no validation
HeaderFrame(buf) == [sof |-> buf[1], id |-> buf[2], len |-> buf[3], crc |-> buf[4]]

\* n zero bytes: std::vector<uint8_t> v(n)
Zeros(n) == [i \in 1..n |-> 0]

Min(a, b) == IF a < b THEN a ELSE b

\* the size of the payload record of each message kind, scaled to the frames of
\* the model: the debug record is empty, the IMU record takes 2 bytes, the others 1
PayloadSize(id) == CASE id = ID_DEBUG -> 0 [] id = ID_IMU -> 2 [] OTHER -> 1

\* fromVector<T>(data) for the record T of kind id: decoding fails when data is
\* not the sizeof(T) bytes of header, payload record and CRC16
FromVectorFails(id, data) == Len(data) # HeaderSize + PayloadSize(id) + 2

(***************************************************************************)
(* Inbound byte streams offered to the receive thread: k non-sentinel      *)
(* bytes, one frame (valid, CRC16 wrong, header CRC8 wrong, valid with an  *)
(* id the switch does not handle, valid with a header whose CRC8 byte is   *)
(* 0, or valid with a payload shorter than the record of its kind), then   *)
(* nothing or one more valid frame.                                        *)
(***************************************************************************)
Header(sof, id, len) == append_CRC8_check_sum(<<sof, id, len, 0>>)

Frame(sof, id, payload) ==
  append_CRC16_check_sum(Header(sof, id, Len(payload)) \o payload \o <<0, 0>>)

\* the byte b with its lowest bit flipped
Flip(b) == IF b % 2 = 0 THEN b + 1 ELSE b - 1

\* s with its i-th byte corrupted
Corrupt(s, i) == [s EXCEPT ![i] = Flip(s[i])]

Garbage(k) == [i \in 1..k |-> 170]

Variants == {"valid", "bad_crc16", "bad_crc8", "unknown_id", "crc8_zero", "malformed"}

\* the message id that gives a 2-byte-payload header the CRC8 byte 0
ZeroCrc8Id == CHOOSE i \in 0..255 : get_CRC8_check_sum(<<SOF_RECEIVE, i, 2>>) = 0

FirstFrame(variant) ==
  CASE variant = "valid"      -> Frame(SOF_RECEIVE, ID_IMU, <<17, 34>>)
    [] variant = "bad_crc16"  -> Corrupt(Frame(SOF_RECEIVE, ID_IMU, <<17, 34>>), 8)
    [] variant = "bad_crc8"   -> Corrupt(Frame(SOF_RECEIVE, ID_IMU, <<17, 34>>), 4)
    [] variant = "unknown_id" -> Frame(SOF_RECEIVE, 200, <<17, 34>>)
    [] variant = "crc8_zero"  -> Frame(SOF_RECEIVE, ZeroCrc8Id, <<17, 34>>)
    [] variant = "malformed"  -> Frame(SOF_RECEIVE, ID_IMU, <<17>>)
    [] variant = "empty"      -> Frame(SOF_RECEIVE, ID_DEBUG, <<>>)

SecondFrame(tailed) == IF tailed THEN Frame(SOF_RECEIVE, ID_GAME_STATUS, <<51>>) ELSE <<>>

Stream(sc) == Garbage(sc.k) \o FirstFrame(sc.variant) \o SecondFrame(sc.tailed)

\* live: the device sends the stream over and over, and the run keeps no record of
\* what the loops did (the traces and the back-off counters stay as they start)
Scenarios == [k : 0..MaxGarbage, variant : Variants, tailed : BOOLEAN, live : {FALSE}]

\* the shortest stream that takes the receive loop through every step: one valid
\* frame with an empty payload
ShortScenario == [k |-> 0, variant |-> "empty", tailed |-> FALSE, live |-> FALSE]

\* that frame, sent without end
LiveScenario == [ShortScenario EXCEPT !.live = TRUE]

(***************************************************************************)
(* Outbound command record: header, the speed vector (vx, vy, wz), CRC16.  *)
(* Each command field is modelled as one byte.                             *)
(***************************************************************************)
Twists == {<<1, 1, 1>>, <<2, 2, 2>>}

\* offsets of the fields in the packed struct
OffVx == HeaderSize + 1
OffVy == HeaderSize + 2
OffWz == HeaderSize + 3

\* sizeof(SendRobotCmdData)
SizeofSendRobotCmdData == HeaderSize + 3 + 2

\* the speed vector a frame or the struct carries
SpeedVector(bytes) == <<bytes[OffVx], bytes[OffVy], bytes[OffWz]>>

(***************************************************************************)
(* State.                                                                  *)
(***************************************************************************)
VARIABLES
  usb_is_ok_,        \* the link-health flag
  portInit,          \* serial_driver_->port() exists (init_port has run)
  portOpen,          \* serial_driver_->port()->is_open()
  faults,            \* transport calls that failed on an open port so far
  crashed,           \* the process died on a call through the null port
  lastOpenOk,        \* the supervisor's most recent open() returned normally
  spPc,              \* position of serialPortProtect
  scenario, stream,  \* the inbound bytes of this run
  rxPos,             \* bytes of stream the receive thread has consumed
  rxPc,              \* position of receiveData
  sof, sof_count, header_frame_buf, header_frame, data_buf,
  received_len_sum, remain_len,      \* locals of receiveData
  rxNotOk,           \* consecutive "usb is not ok" iterations of receiveData
  rxTrace,           \* what receiveData did: reads, log lines, checks, sink calls
  send_robot_cmd_data_,  \* the outbound frame, as the bytes of the packed struct
  txPc,              \* position of sendData
  send_data,         \* local of sendData: the vector handed to send()
  txNotOk,           \* consecutive "usb is not ok" iterations of sendData
  txTrace,           \* the frames sendData wrote last
  cmdPc,             \* position of the updateCmdVel call in progress
  msg,               \* the Twist of that call
  cmdCalls,          \* the Twists updateCmdVel has been called with, in order
  cmdInit,           \* the speed vector the record held at construction
  rxFault,           \* "none": no receive has thrown; "pending": one has, and the
                     \* supervisor has attempted no open since; "recovered": it has
  txPending,         \* a send has thrown and the supervisor has attempted no open since
  ok,                \* rclcpp::ok(): no shutdown has been requested
  dtorPc             \* position of ~StandardRobotPpRos2Node ("alive": not entered)

spVars == <<portInit, portOpen, lastOpenOk, spPc>>
rxVars == <<rxPos, rxPc, sof, sof_count, header_frame_buf, header_frame, data_buf,
            received_len_sum, remain_len, rxNotOk, rxTrace>>
\* what the surrounding process decides: the inbound bytes, shutdown, destruction
envVars == <<scenario, stream, ok, dtorPc>>
txVars == <<send_robot_cmd_data_, txPc, send_data, txNotOk, txTrace, cmdPc, msg, cmdCalls,
            cmdInit>>
histVars == <<rxFault, txPending>>
vars == <<usb_is_ok_, faults, crashed, spVars, rxVars, envVars, txVars, histVars>>

\* one entry of rxTrace: a read ("read", which buffer, bytes consumed before it,
\* bytes returned, the bytes), a log line, a CRC16 check, a sink call
Ev(ev, what, at, n, buf) == [ev |-> ev, what |-> what, at |-> at, n |-> n, buf |-> buf]

Init ==
  /\ usb_is_ok_ \in BOOLEAN          \* bool usb_is_ok_; has no initializer
  /\ portInit = FALSE
  /\ portOpen = FALSE
  /\ faults = 0
  /\ crashed = FALSE
  /\ lastOpenOk = FALSE
  /\ spPc = "init_port"
  /\ scenario \in Scenarios \cup {ShortScenario, LiveScenario}
  /\ stream = Stream(scenario)
  /\ rxPos = 0
  /\ rxPc = "loop"
  /\ sof = <<0>>
  /\ sof_count = 0
  /\ header_frame_buf = <<>>
  /\ header_frame = HeaderFrame(Zeros(HeaderSize))
  /\ data_buf = <<>>
  /\ received_len_sum = 0
  /\ remain_len = 0
  /\ rxNotOk = 0
  /\ rxTrace = <<>>
  \* SendRobotCmdData send_robot_cmd_data_; has no initializer: the command fields
  \* hold any value; the header and checksum bytes are written before they are read
  /\ cmdInit \in Twists
  /\ send_robot_cmd_data_ = Zeros(HeaderSize) \o cmdInit \o <<0, 0>>
  /\ txPc = "init"
  /\ send_data = <<>>
  /\ txNotOk = 0
  /\ txTrace = <<>>
  /\ cmdPc = "idle"
  /\ msg = <<0, 0, 0>>
  /\ cmdCalls = <<>>
  /\ rxFault = "none"
  /\ txPending = FALSE
  /\ ok = TRUE
  /\ dtorPc = "alive"

(***************************************************************************)
(* serialPortProtect                                                       *)
(***************************************************************************)
\* line 318: serial_driver_->init_port(device_name_, *device_config_)
SpInitPort ==
  /\ ~crashed /\ spPc = "init_port"
  /\ portInit' = TRUE
  /\ spPc' = "first_open"
  /\ UNCHANGED <<usb_is_ok_, faults, crashed, portOpen, lastOpenOk, rxVars, envVars, txVars, histVars>>

\* lines 320-329: the single open attempt at start-up
SpFirstOpen ==
  /\ ~crashed /\ spPc = "first_open"
  /\ ~portOpen                                   \* a port just created is closed
  /\ \/ /\ portOpen' = TRUE                      \* open() returns
        /\ lastOpenOk' = TRUE
        /\ usb_is_ok_' = TRUE
        /\ UNCHANGED faults
     \/ /\ faults < MaxFaults                    \* open() throws
        /\ faults' = faults + 1
        /\ lastOpenOk' = FALSE
        /\ usb_is_ok_' = FALSE
        /\ UNCHANGED portOpen
  /\ spPc' = "set_ok"
  /\ UNCHANGED <<crashed, portInit, rxVars, envVars, txVars>>
  /\ rxFault' = IF rxFault = "pending" THEN "recovered" ELSE rxFault
  /\ txPending' = FALSE

\* line 331: usb_is_ok_ = true, whatever the attempt gave
SpSetOk ==
  /\ ~crashed /\ spPc = "set_ok"
  /\ usb_is_ok_' = TRUE
  /\ spPc' = "sleep"
  /\ UNCHANGED <<faults, crashed, portInit, portOpen, lastOpenOk, rxVars, envVars, txVars, histVars>>

\* lines 332 and 354: sleep_for(USB_PROTECT_SLEEP_TIME), then the loop test
SpSleep ==
  /\ ~crashed /\ spPc = "sleep"
  /\ spPc' = "check"
  /\ UNCHANGED <<usb_is_ok_, faults, crashed, portInit, portOpen, lastOpenOk, rxVars, envVars, txVars, histVars>>

\* the loop body without the test of line 335
SpCheck_AlwaysReopens ==
  /\ ~crashed /\ spPc = "check" /\ ok
  /\ spPc' = "close"
  /\ UNCHANGED <<usb_is_ok_, faults, crashed, portInit, portOpen, lastOpenOk, rxVars, envVars, txVars, histVars>>

\* lines 334-335: while (rclcpp::ok()) passes; if (!usb_is_ok_)
SpCheck ==
  /\ ~crashed /\ spPc = "check" /\ ok
  /\ spPc' = IF usb_is_ok_ THEN "sleep" ELSE "close"
  /\ UNCHANGED <<usb_is_ok_, faults, crashed, portInit, portOpen, lastOpenOk, rxVars, envVars, txVars, histVars>>

\* lines 337-339: if (is_open()) close()
SpClose ==
  /\ ~crashed /\ spPc = "close"
  /\ portOpen' = FALSE
  /\ spPc' = "reopen"
  /\ UNCHANGED <<usb_is_ok_, faults, crashed, portInit, lastOpenOk, rxVars, envVars, txVars, histVars>>

\* the reopen without line 345
SpReopen_KeepsFlag ==
  /\ ~crashed /\ spPc = "reopen"
  /\ \/ /\ portOpen' = TRUE
        /\ lastOpenOk' = TRUE
        /\ UNCHANGED <<usb_is_ok_, faults>>
     \/ /\ faults < MaxFaults
        /\ faults' = faults + 1
        /\ lastOpenOk' = FALSE
        /\ usb_is_ok_' = FALSE
        /\ UNCHANGED portOpen
  /\ spPc' = "sleep"
  /\ UNCHANGED <<crashed, portInit, rxVars, envVars, txVars>>
  /\ rxFault' = IF rxFault = "pending" THEN "recovered" ELSE rxFault
  /\ txPending' = FALSE

\* lines 341-350: open(); if (is_open()) usb_is_ok_ = true; catch: usb_is_ok_ = false
SpReopen ==
  /\ ~crashed /\ spPc = "reopen"
  /\ \/ /\ portOpen' = TRUE
        /\ lastOpenOk' = TRUE
        /\ usb_is_ok_' = TRUE
        /\ UNCHANGED faults
     \/ /\ faults < MaxFaults
        /\ faults' = faults + 1
        /\ lastOpenOk' = FALSE
        /\ usb_is_ok_' = FALSE
        /\ UNCHANGED portOpen
  /\ spPc' = "sleep"
  /\ UNCHANGED <<crashed, portInit, rxVars, envVars, txVars>>
  /\ rxFault' = IF rxFault = "pending" THEN "recovered" ELSE rxFault
  /\ txPending' = FALSE

\* a loop that does not test rclcpp::ok()
SpExit_KeepsLooping ==
  /\ ~crashed /\ spPc = "check" /\ ~ok
  /\ spPc' = IF usb_is_ok_ THEN "sleep" ELSE "close"
  /\ UNCHANGED <<usb_is_ok_, faults, crashed, portInit, portOpen, lastOpenOk, rxVars, envVars, txVars, histVars>>

\* line 334: while (rclcpp::ok()) fails, the thread function returns
SpExit ==
  /\ ~crashed /\ spPc = "check" /\ ~ok
  /\ spPc' = "done"
  /\ UNCHANGED <<usb_is_ok_, faults, crashed, portInit, portOpen, lastOpenOk, rxVars, envVars, txVars, histVars>>

SerialPortProtect ==
  SpInitPort \/ SpFirstOpen \/ SpSetOk \/ SpSleep \/ SpCheck \/ SpExit \/ SpClose
    \/ SpReopen

(***************************************************************************)
(* The transport as the receive thread sees it.  receive(buf) blocks until *)
(* at least one byte is there, then returns between 1 and buf.size() bytes *)
(* (asio read_some); it throws on a closed port or a failing device.       *)
(***************************************************************************)
Avail == Len(stream) - rxPos

\* the numbers of bytes a receive into a buffer of n bytes may return
Returned(n) == 1..Min(n, Avail)

\* the bytes consumed after n more (a stream sent without end starts over)
Advance(n) == IF scenario.live THEN (rxPos + n) % Len(stream) ELSE rxPos + n

\* the trace tr after the entries es, in a run that keeps its traces
Kept(tr, es) == IF scenario.live THEN tr ELSE tr \o es

\* the back-off counter c after one more iteration that found the flag false
Counted(c) == IF scenario.live THEN c ELSE Min(c + 1, MaxNotOk)

\* the next n bytes of the stream
Next_bytes(n) == SubSeq(stream, rxPos + 1, rxPos + n)

PortReturns == portInit /\ portOpen
PortThrows == portInit /\ (~portOpen \/ faults < MaxFaults)
FaultsAfterThrow == IF portOpen THEN faults + 1 ELSE faults

\* s with its first n bytes replaced by the first n of bytes
Fill(s, bytes, n) == [i \in 1..Len(s) |-> IF i <= n THEN bytes[i] ELSE s[i]]

\* std::vector::insert(begin() + at, first, last)
Insert(s, at, bytes) == Take(s, at) \o bytes \o SubSeq(s, at + 1, Len(s))

(***************************************************************************)
(* receiveData                                                             *)
(***************************************************************************)
\* an iteration that ends by leaving the loop
RxEndIteration_Exits ==
  /\ rxPc' = "done"
  /\ header_frame_buf' = <<>>
  /\ header_frame' = HeaderFrame(Zeros(HeaderSize))
  /\ data_buf' = <<>>
  /\ received_len_sum' = 0
  /\ remain_len' = 0

\* the locals of the try block go out of scope when an iteration ends
RxEndIteration ==
  /\ rxPc' = "loop"
  /\ header_frame_buf' = <<>>
  /\ header_frame' = HeaderFrame(Zeros(HeaderSize))
  /\ data_buf' = <<>>
  /\ received_len_sum' = 0
  /\ remain_len' = 0

\* a receive throws: control leaves the try block for the handler of line 485
RxThrow(what) ==
  /\ PortThrows
  /\ faults' = FaultsAfterThrow
  /\ rxFault' = "pending"
  /\ rxPc' = "catch"
  /\ UNCHANGED <<usb_is_ok_, crashed, rxTrace, rxPos, sof, sof_count, rxNotOk, header_frame_buf,
                 header_frame, data_buf, received_len_sum, remain_len>>

\* the catch block without line 487
RxCatch_KeepsFlag ==
  /\ ~crashed /\ rxPc = "catch"
  /\ UNCHANGED usb_is_ok_
  /\ RxEndIteration
  /\ UNCHANGED <<faults, crashed, spVars, envVars, txVars, histVars, rxPos, sof, sof_count, rxNotOk,
                 rxTrace>>

\* lines 485-488: catch (std::exception): log, usb_is_ok_ = false
RxCatch ==
  /\ ~crashed /\ rxPc = "catch"
  /\ usb_is_ok_' = FALSE
  /\ RxEndIteration
  /\ UNCHANGED <<faults, crashed, spVars, envVars, txVars, histVars, rxPos, sof, sof_count, rxNotOk,
                 rxTrace>>

\* line 372: while (rclcpp::ok()) fails, the thread function returns
RxExit ==
  /\ ~crashed /\ rxPc = "loop" /\ ~ok
  /\ rxPc' = "done"
  /\ UNCHANGED <<usb_is_ok_, faults, crashed, spVars, envVars, txVars, histVars, rxPos, sof, sof_count,
                 header_frame_buf, header_frame, data_buf, received_len_sum, remain_len,
                 rxNotOk, rxTrace>>

\* lines 372-378: the loop test passes; the health check that opens every iteration
RxCheckUsb ==
  /\ ~crashed /\ rxPc = "loop" /\ ok
  /\ \/ /\ ~usb_is_ok_
        /\ rxNotOk' = Counted(rxNotOk)
        /\ UNCHANGED rxPc
     \/ /\ usb_is_ok_
        /\ rxNotOk' = 0
        /\ rxPc' = "sof"
  /\ UNCHANGED <<usb_is_ok_, faults, crashed, spVars, envVars, txVars, histVars, rxPos, sof, sof_count,
                 header_frame_buf, header_frame, data_buf, received_len_sum, remain_len,
                 rxTrace>>

\* the continue of line 386 left out
SofNextPc_NoContinue(b) == "header"

\* lines 383-388: where the iteration goes after reading the byte b
SofNextPc(b) == IF b # SOF_RECEIVE THEN "loop" ELSE "header"

\* lines 381-388: receive(sof); a byte that is not SOF_RECEIVE ends the iteration
RxReceiveSof ==
  /\ ~crashed /\ rxPc = "sof"
  /\ \/ /\ ~portInit                             \* port() is null: the process dies
        /\ crashed' = TRUE
        /\ UNCHANGED <<usb_is_ok_, faults, rxVars, rxFault>>
     \/ /\ PortReturns /\ Avail >= 1
        /\ LET b == stream[rxPos + 1]
           IN  /\ sof' = <<b>>
               /\ rxPos' = Advance(1)
               /\ IF b # SOF_RECEIVE
                    THEN /\ sof_count' = sof_count + 1
                         /\ rxTrace' = Kept(rxTrace, <<Ev("read", "sof", rxPos, 1, <<b>>),
                                                        Ev("log", "find_sof", rxPos + 1, 0, <<>>)>>)
                    ELSE /\ sof_count' = 0
                         /\ rxTrace' = Kept(rxTrace, <<Ev("read", "sof", rxPos, 1, <<b>>)>>)
               /\ rxPc' = SofNextPc(b)
        /\ UNCHANGED <<usb_is_ok_, faults, crashed, rxFault, header_frame_buf, header_frame, data_buf,
                       received_len_sum, remain_len, rxNotOk>>
     \/ RxThrow("sof")
  /\ UNCHANGED <<spVars, envVars, txVars, txPending>>

\* lines 390-403: receive(header_frame_buf) into 3 bytes, its return value unused;
\* insert sof; fromVector; CRC8 check
RxReceiveHeader ==
  /\ ~crashed /\ rxPc = "header"
  /\ \/ /\ PortReturns
        /\ \E got \in Returned(HeaderSize - 1) :
             LET buf == <<sof[1]>> \o Fill(Zeros(HeaderSize - 1), Next_bytes(got), got)
                 rd  == Ev("read", "header", rxPos, got, Next_bytes(got))
             IN  /\ rxPos' = Advance(got)
                 /\ IF verify_CRC8_check_sum(buf)
                      THEN /\ header_frame_buf' = buf
                           /\ header_frame' = HeaderFrame(buf)
                           /\ rxTrace' = Kept(rxTrace, <<rd>>)
                           /\ rxPc' = "data"
                           /\ UNCHANGED <<data_buf, received_len_sum, remain_len>>
                      ELSE /\ rxTrace' = Kept(rxTrace,
                                <<rd, Ev("log", "crc8_error", rxPos + got, 0, buf)>>)
                           /\ RxEndIteration
        /\ UNCHANGED <<usb_is_ok_, faults, crashed, rxFault, sof, sof_count, rxNotOk>>
     \/ RxThrow("header")
  /\ UNCHANGED <<spVars, envVars, txVars, txPending>>

\* lines 405-412: data_buf(len + 2); the first receive into it
RxReceiveData ==
  /\ ~crashed /\ rxPc = "data"
  /\ \/ /\ PortReturns
        /\ \E got \in Returned(header_frame.len + 2) :
             /\ data_buf' = Fill(Zeros(header_frame.len + 2), Next_bytes(got), got)
             /\ received_len_sum' = got
             /\ remain_len' = header_frame.len + 2 - got
             /\ rxPos' = Advance(got)
             /\ rxTrace' = Kept(rxTrace, <<Ev("read", "data", rxPos, got, Next_bytes(got))>>)
             /\ rxPc' = IF header_frame.len + 2 - got > 0 THEN "remain" ELSE "verify"
        /\ UNCHANGED <<usb_is_ok_, faults, crashed, rxFault, sof, sof_count, header_frame_buf,
                       header_frame, rxNotOk>>
     \/ RxThrow("data")
  /\ UNCHANGED <<spVars, envVars, txVars, txPending>>

\* a turn that reads into a buffer of the full len + 2 bytes instead of remain_len
RxReceiveRemain_FullSizeBuffer ==
  /\ ~crashed /\ rxPc = "remain"
  /\ \/ /\ PortReturns
        /\ \E got \in Returned(header_frame.len + 2) :
             LET remain_buf == Fill(Zeros(header_frame.len + 2), Next_bytes(got), got)
             IN  /\ data_buf' = Insert(data_buf, received_len_sum, remain_buf)
                 /\ received_len_sum' = received_len_sum + got
                 /\ remain_len' = remain_len - got
                 /\ rxPos' = Advance(got)
                 /\ rxTrace' = Kept(rxTrace,
                                      <<Ev("read", "remain", rxPos, got, Next_bytes(got))>>)
                 /\ rxPc' = IF remain_len - got > 0 THEN "remain" ELSE "verify"
        /\ UNCHANGED <<usb_is_ok_, faults, crashed, rxFault, sof, sof_count, header_frame_buf,
                       header_frame, rxNotOk>>
     \/ RxThrow("remain")
  /\ UNCHANGED <<spVars, envVars, txVars, txPending>>

\* lines 413-419: one turn of while (remain_len > 0)
RxReceiveRemain ==
  /\ ~crashed /\ rxPc = "remain"
  /\ \/ /\ PortReturns
        /\ \E got \in Returned(remain_len) :
             LET remain_buf == Fill(Zeros(remain_len), Next_bytes(got), got)
             IN  /\ data_buf' = Insert(data_buf, received_len_sum, remain_buf)
                 /\ received_len_sum' = received_len_sum + got
                 /\ remain_len' = remain_len - got
                 /\ rxPos' = Advance(got)
                 /\ rxTrace' = Kept(rxTrace,
                                      <<Ev("read", "remain", rxPos, got, Next_bytes(got))>>)
                 /\ rxPc' = IF remain_len - got > 0 THEN "remain" ELSE "verify"
        /\ UNCHANGED <<usb_is_ok_, faults, crashed, rxFault, sof, sof_count, header_frame_buf,
                       header_frame, rxNotOk>>
     \/ RxThrow("remain")
  /\ UNCHANGED <<spVars, envVars, txVars, txPending>>

\* the ids the switch of lines 432-483 has a case for
HandledIds ==
  {ID_DEBUG, ID_IMU, ID_EVENT_DATA, ID_PID_DEBUG, ID_ALL_ROBOT_HP, ID_GAME_STATUS,
   ID_ROBOT_MOTION, ID_GROUND_ROBOT_POSITION, ID_RFID_STASTUS, ID_ROBOT_STATUS,
   ID_GIMBAL_CMD, ID_SHOOT_CMD}

\* the cases that call a publish operation (ID_PID_DEBUG only warns)
PublishedIds == HandledIds \ {ID_PID_DEBUG}

\* a default arm that publishes instead of warning
Dispatch_DefaultPublishes(id, packet) ==
  IF id = ID_PID_DEBUG THEN Ev("log", "not_implemented", rxPos, id, <<>>)
  ELSE Ev("publish", "sink", rxPos, id, packet)

\* lines 431-483: what the switch on header_frame.id does with the packet
Dispatch(id, packet) ==
  IF id \in PublishedIds THEN Ev("publish", "sink", rxPos, id, packet)
  ELSE IF id = ID_PID_DEBUG THEN Ev("log", "not_implemented", rxPos, id, <<>>)
  ELSE Ev("log", "invalid_id", rxPos, id, <<>>)

\* the dispatch without the CRC16 check of lines 425-429
RxVerifyDispatch_NoCheck ==
  /\ ~crashed /\ rxPc = "verify"
  /\ LET packet == Insert(data_buf, 0, header_frame_buf)
     IN  rxTrace' = Kept(rxTrace,
           <<Ev("verify16", IF verify_CRC16_check_sum(packet) THEN "ok" ELSE "fail", rxPos,
                Len(packet), packet),
             Dispatch(header_frame.id, packet)>>)
  /\ RxEndIteration
  /\ UNCHANGED <<usb_is_ok_, faults, crashed, spVars, envVars, txVars, histVars, rxPos, sof,
                 sof_count, rxNotOk>>

\* lines 421-483: prepend the header, CRC16 check over the whole buffer, dispatch;
\* a fromVector that fails in an arm of the switch leaves the try block for the
\* handler of line 485
RxVerifyDispatch ==
  /\ ~crashed /\ rxPc = "verify"
  /\ LET packet == Insert(data_buf, 0, header_frame_buf)
     IN  IF ~verify_CRC16_check_sum(packet)
           THEN /\ rxTrace' = Kept(rxTrace,
                                   <<Ev("verify16", "fail", rxPos, Len(packet), packet),
                                     Ev("log", "crc16_error", rxPos, 0, <<>>)>>)
                /\ RxEndIteration
           ELSE IF header_frame.id \in PublishedIds /\ FromVectorFails(header_frame.id, packet)
           THEN /\ rxTrace' = Kept(rxTrace,
                                   <<Ev("verify16", "ok", rxPos, Len(packet), packet),
                                     Ev("log", "decode_error", rxPos, header_frame.id, <<>>)>>)
                /\ rxPc' = "catch"
                /\ UNCHANGED <<header_frame_buf, header_frame, data_buf, received_len_sum,
                               remain_len>>
           ELSE /\ rxTrace' = Kept(rxTrace,
                                   <<Ev("verify16", "ok", rxPos, Len(packet), packet),
                                     Dispatch(header_frame.id, packet)>>)
                /\ RxEndIteration
  /\ UNCHANGED <<usb_is_ok_, faults, crashed, spVars, envVars, txVars, histVars, rxPos, sof, sof_count,
                 rxNotOk>>

ReceiveData ==
  RxExit \/ RxCheckUsb \/ RxReceiveSof \/ RxReceiveHeader \/ RxReceiveData
    \/ RxReceiveRemain \/ RxVerifyDispatch \/ RxCatch

(***************************************************************************)
(* sendData                                                                *)
(***************************************************************************)
\* a header whose len counts the whole record instead of the payload
TxInitHeader_LenIsRecordSize ==
  /\ ~crashed /\ txPc = "init"
  /\ send_robot_cmd_data_' =
       append_CRC8_check_sum(<<SOF_SEND, ID_ROBOT_CMD, SizeofSendRobotCmdData, 0>>)
         \o SubSeq(send_robot_cmd_data_, HeaderSize + 1, SizeofSendRobotCmdData)
  /\ txPc' = "loop"
  /\ UNCHANGED <<usb_is_ok_, faults, crashed, spVars, rxVars, envVars, send_data, txNotOk,
                 txTrace, cmdPc, msg, cmdCalls, cmdInit, histVars>>

\* lines 769-773: the fixed header, written once before the loop
TxInitHeader ==
  /\ ~crashed /\ txPc = "init"
  /\ send_robot_cmd_data_' =
       append_CRC8_check_sum(<<SOF_SEND, ID_ROBOT_CMD, SizeofSendRobotCmdData - 6, 0>>)
         \o SubSeq(send_robot_cmd_data_, HeaderSize + 1, SizeofSendRobotCmdData)
  /\ txPc' = "loop"
  /\ UNCHANGED <<usb_is_ok_, faults, crashed, spVars, rxVars, envVars, send_data, txNotOk,
                 txTrace, cmdPc, msg, cmdCalls, cmdInit, histVars>>

\* line 775: while (rclcpp::ok()) fails, the thread function returns
TxExit ==
  /\ ~crashed /\ txPc = "loop" /\ ~ok
  /\ txPc' = "done"
  /\ UNCHANGED <<usb_is_ok_, faults, crashed, spVars, rxVars, envVars, send_robot_cmd_data_,
                 send_data, txNotOk, txTrace, cmdPc, msg, cmdCalls, cmdInit, histVars>>

\* the iteration without the health check of lines 776-781
TxCheckUsb_IgnoresFlag ==
  /\ ~crashed /\ txPc = "loop" /\ ok
  /\ txNotOk' = 0
  /\ txPc' = "crc"
  /\ UNCHANGED <<usb_is_ok_, faults, crashed, spVars, rxVars, envVars, send_robot_cmd_data_,
                 send_data, txTrace, cmdPc, msg, cmdCalls, cmdInit, histVars>>

\* lines 775-781: the loop test passes; the health check that opens every iteration
TxCheckUsb ==
  /\ ~crashed /\ txPc = "loop" /\ ok
  /\ \/ /\ ~usb_is_ok_
        /\ txNotOk' = Counted(txNotOk)
        /\ UNCHANGED txPc
     \/ /\ usb_is_ok_
        /\ txNotOk' = 0
        /\ txPc' = "crc"
  /\ UNCHANGED <<usb_is_ok_, faults, crashed, spVars, rxVars, envVars, send_robot_cmd_data_,
                 send_data, txTrace, cmdPc, msg, cmdCalls, cmdInit, histVars>>

\* lines 801-802: append_CRC16_check_sum over the struct, in place
TxAppendCrc16 ==
  /\ ~crashed /\ txPc = "crc"
  /\ send_robot_cmd_data_' = append_CRC16_check_sum(send_robot_cmd_data_)
  /\ txPc' = "to_vector"
  /\ UNCHANGED <<usb_is_ok_, faults, crashed, spVars, rxVars, envVars, send_data, txNotOk,
                 txTrace, cmdPc, msg, cmdCalls, cmdInit, histVars>>

\* line 805: send_data = toVector(send_robot_cmd_data_)
TxToVector ==
  /\ ~crashed /\ txPc = "to_vector"
  /\ send_data' = send_robot_cmd_data_
  /\ txPc' = "send"
  /\ UNCHANGED <<usb_is_ok_, faults, crashed, spVars, rxVars, envVars, send_robot_cmd_data_,
                 txNotOk, txTrace, cmdPc, msg, cmdCalls, cmdInit, histVars>>

\* txTrace keeps the last MaxSends frames written
Record(tr, e) ==
  IF scenario.live THEN tr
  ELSE IF Len(tr) < MaxSends THEN Append(tr, e) ELSE Append(Tail(tr), e)

\* line 806: send(send_data) returns, or throws to the handler of line 808
TxSend ==
  /\ ~crashed /\ txPc = "send"
  /\ \/ /\ ~portInit                             \* port() is null: the process dies
        /\ crashed' = TRUE
        /\ UNCHANGED <<usb_is_ok_, faults, txPc, txTrace, txPending>>
     \/ /\ PortReturns
        /\ txTrace' = Record(txTrace, Ev("write", "frame", 0, Len(send_data), send_data))
        /\ txPc' = "sleep"
        /\ UNCHANGED <<usb_is_ok_, faults, crashed, txPending>>
     \/ /\ PortThrows
        /\ faults' = FaultsAfterThrow
        /\ txPending' = TRUE
        /\ txPc' = "catch"
        /\ UNCHANGED <<usb_is_ok_, crashed, txTrace>>
  /\ UNCHANGED <<spVars, rxVars, envVars, send_robot_cmd_data_, send_data, txNotOk, cmdPc, msg,
                 cmdCalls, cmdInit, rxFault>>

\* a handler that goes back to the send instead of falling through to the sleep
TxCatch_Retries ==
  /\ ~crashed /\ txPc = "catch"
  /\ usb_is_ok_' = FALSE
  /\ txPc' = "send"
  /\ UNCHANGED <<faults, crashed, spVars, rxVars, envVars, send_robot_cmd_data_, send_data,
                 txNotOk, txTrace, cmdPc, msg, cmdCalls, cmdInit, histVars>>

\* lines 808-811: catch (std::exception): log, usb_is_ok_ = false
TxCatch ==
  /\ ~crashed /\ txPc = "catch"
  /\ usb_is_ok_' = FALSE
  /\ txPc' = "sleep"
  /\ UNCHANGED <<faults, crashed, spVars, rxVars, envVars, send_robot_cmd_data_, send_data,
                 txNotOk, txTrace, cmdPc, msg, cmdCalls, cmdInit, histVars>>

\* line 814: sleep_for(5 ms), then the loop test
TxSleep ==
  /\ ~crashed /\ txPc = "sleep"
  /\ txPc' = "loop"
  /\ UNCHANGED <<usb_is_ok_, faults, crashed, spVars, rxVars, envVars, send_robot_cmd_data_,
                 send_data, txNotOk, txTrace, cmdPc, msg, cmdCalls, cmdInit, histVars>>

SendData ==
  TxInitHeader \/ TxExit \/ TxCheckUsb \/ TxAppendCrc16 \/ TxToVector \/ TxSend \/ TxCatch
    \/ TxSleep

(***************************************************************************)
(* updateCmdVel: three plain stores, no lock; the executor runs one        *)
(* callback at a time.                                                     *)
(***************************************************************************)
\* line 821: speed_vector.vx = msg->linear.x
UpdateCmdVelVx ==
  /\ ~crashed /\ cmdPc = "idle" /\ Len(cmdCalls) < MaxUpdates
  /\ \E m \in Twists :
       /\ msg' = m
       /\ cmdCalls' = Append(cmdCalls, m)
       /\ send_robot_cmd_data_' = [send_robot_cmd_data_ EXCEPT ![OffVx] = m[1]]
  /\ cmdPc' = "vy"
  /\ UNCHANGED <<usb_is_ok_, faults, crashed, spVars, rxVars, envVars, txPc, send_data,
                 txNotOk, txTrace, cmdInit, histVars>>

\* line 822: speed_vector.vy = msg->linear.y
UpdateCmdVelVy ==
  /\ ~crashed /\ cmdPc = "vy"
  /\ send_robot_cmd_data_' = [send_robot_cmd_data_ EXCEPT ![OffVy] = msg[2]]
  /\ cmdPc' = "wz"
  /\ UNCHANGED <<usb_is_ok_, faults, crashed, spVars, rxVars, envVars, txPc, send_data,
                 txNotOk, txTrace, msg, cmdCalls, cmdInit, histVars>>

\* line 823: speed_vector.wz = msg->angular.z
UpdateCmdVelWz ==
  /\ ~crashed /\ cmdPc = "wz"
  /\ send_robot_cmd_data_' = [send_robot_cmd_data_ EXCEPT ![OffWz] = msg[3]]
  /\ cmdPc' = "idle"
  /\ UNCHANGED <<usb_is_ok_, faults, crashed, spVars, rxVars, envVars, txPc, send_data,
                 txNotOk, txTrace, msg, cmdCalls, cmdInit, histVars>>

UpdateCmdVel == UpdateCmdVelVx \/ UpdateCmdVelVy \/ UpdateCmdVelWz

(***************************************************************************)
(* Shutdown and teardown.  rclcpp::ok() turns false once, when the process *)
(* is asked to stop; rclcpp::spin then returns and the owner of the node    *)
(* destroys it.                                                            *)
(***************************************************************************)
Shutdown ==
  /\ ~crashed /\ ok
  /\ ok' = FALSE
  /\ UNCHANGED <<usb_is_ok_, faults, crashed, spVars, rxVars, scenario, stream, dtorPc, txVars,
                 histVars>>

\* the variables a step of the destructor leaves alone, the port aside
dtorFrame == <<usb_is_ok_, faults, crashed, portInit, lastOpenOk, spPc, rxVars, scenario,
               stream, ok, txVars, histVars>>

\* line 163: the destructor is entered
DtorEnter ==
  /\ ~crashed /\ dtorPc = "alive" /\ ~ok
  /\ dtorPc' = "join_send"
  /\ UNCHANGED <<dtorFrame, portOpen>>

\* lines 165-167: send_thread_.join() returns once sendData has returned
DtorJoinSend ==
  /\ ~crashed /\ dtorPc = "join_send" /\ txPc = "done"
  /\ dtorPc' = "join_receive"
  /\ UNCHANGED <<dtorFrame, portOpen>>

\* join() without waiting for receiveData to return
DtorJoinReceive_NoWait ==
  /\ ~crashed /\ dtorPc = "join_receive"
  /\ dtorPc' = "join_protect"
  /\ UNCHANGED <<dtorFrame, portOpen>>

\* lines 169-171: receive_thread_.join() returns once receiveData has returned
DtorJoinReceive ==
  /\ ~crashed /\ dtorPc = "join_receive" /\ rxPc = "done"
  /\ dtorPc' = "join_protect"
  /\ UNCHANGED <<dtorFrame, portOpen>>

\* lines 173-175: serial_port_protect_thread_.join()
DtorJoinProtect ==
  /\ ~crashed /\ dtorPc = "join_protect" /\ spPc = "done"
  /\ dtorPc' = "close"
  /\ UNCHANGED <<dtorFrame, portOpen>>

\* lines 177-179: if (is_open()) close()
DtorClose ==
  /\ ~crashed /\ dtorPc = "close"
  /\ portOpen' = FALSE
  /\ dtorPc' = "closed"
  /\ UNCHANGED dtorFrame

Destructor == DtorEnter \/ DtorJoinSend \/ DtorJoinReceive \/ DtorJoinProtect \/ DtorClose

(***************************************************************************)
(* Specifications.  The three threads meet only in usb_is_ok_ and in the   *)
(* port, which the supervisor alone opens and closes.  SpecRx runs the     *)
(* supervisor with the receive thread over every inbound stream; SpecTx    *)
(* runs the supervisor with the send thread and the /cmd_vel callback;     *)
(* SpecAll runs the three threads and the destructor over one short        *)
(* stream; SpecLive runs them over a stream without end, with no thread    *)
(* starved.                                                                *)
(***************************************************************************)
InitRx == Init /\ scenario \in Scenarios /\ cmdInit = <<1, 1, 1>>
NextRx == SerialPortProtect \/ ReceiveData \/ Shutdown
SpecRx == InitRx /\ [][NextRx]_vars

InitTx == Init /\ scenario = [k |-> 0, variant |-> "valid", tailed |-> FALSE, live |-> FALSE]
NextTx == SerialPortProtect \/ SendData \/ UpdateCmdVel \/ Shutdown
SpecTx == InitTx /\ [][NextTx]_vars

InitAll == Init /\ scenario = ShortScenario /\ cmdInit = <<1, 1, 1>>
NextAll == SerialPortProtect \/ ReceiveData \/ SendData \/ Shutdown \/ Destructor
SpecAll == InitAll /\ [][NextAll]_vars
InitLive == Init /\ scenario = LiveScenario /\ cmdInit = <<1, 1, 1>>
SpecLive ==
  /\ InitLive /\ [][NextAll]_vars
  /\ WF_vars(SerialPortProtect) /\ WF_vars(ReceiveData) /\ WF_vars(SendData)
  /\ WF_vars(Destructor)

(***************************************************************************)
(* Reading the traces.                                                     *)
(***************************************************************************)
\* the indices of a trace
Indices(tr) == 1..Len(tr)

\* the Twists the record has held as a whole: the initial one and every call's
WholeRecords == {cmdInit} \cup {cmdCalls[j] : j \in Indices(cmdCalls)}

\* the index in rxTrace of the last matched sentinel read before index i (0: none)
SofBefore(i) ==
  LET S == {j \in 1..(i - 1) : /\ rxTrace[j].ev = "read" /\ rxTrace[j].what = "sof"
                                /\ rxTrace[j].buf = <<SOF_RECEIVE>>}
  IN  IF S = {} THEN 0 ELSE CHOOSE j \in S : \A m \in S : m <= j

\* the sink calls made so far
IsPublish(e) == e.ev = "publish"
Published == SelectSeq(rxTrace, IsPublish)

\* the reads that returned so far
IsRead(e) == e.ev = "read"
Reads == SelectSeq(rxTrace, IsRead)

\* no receive has thrown so far
NoRxThrow == rxFault = "none"

\* the last entry of a non-empty trace
Last(tr) == tr[Len(tr)]

\* this step appended to rxTrace, and the last entry it appended is a log line `what`
RxLogged(what) ==
  /\ Len(rxTrace') > Len(rxTrace)
  /\ Last(rxTrace').ev = "log" /\ Last(rxTrace').what = what

(***************************************************************************)
(* C1: for every interleaving of updateCmdVel calls with send-loop         *)
(* iterations, the (vx, vy, wz) of every frame the send loop writes is the *)
(* triple of one single updateCmdVel call or the initial record, never a   *)
(* mix of two.  The stores of lines 821-823 and the reads of lines 801-805 *)
(* take no lock, so the statement fails.                                   *)
(***************************************************************************)
C1_WrittenTripleIsOneCall ==
  \A i \in Indices(txTrace) :
    txTrace[i].ev = "write" => SpeedVector(txTrace[i].buf) \in WholeRecords

(***************************************************************************)
(* C7: every frame the send loop writes carries CRC16 bytes that match the *)
(* header and payload bytes of that same frame, for every interleaving of  *)
(* updateCmdVel with the checksum computation and the serialization.  A    *)
(* store between line 802 and line 805 breaks it.                          *)
(***************************************************************************)
C7_WrittenFrameCrc16Matches ==
  \A i \in Indices(txTrace) :
    txTrace[i].ev = "write" => verify_CRC16_check_sum(txTrace[i].buf)

(***************************************************************************)
(* C8: every change of usb_is_ok_ to true is made by the supervisor, and   *)
(* when it is made the supervisor's most recent open attempt succeeded and *)
(* the port is open.  Line 331 sets the flag after a failed attempt too.   *)
(***************************************************************************)
C8_TrueOnlyAfterSuccessfulOpen ==
  [][(~usb_is_ok_ /\ usb_is_ok_') => (spPc' # spPc /\ lastOpenOk' /\ portOpen')]_vars

(***************************************************************************)
(* C2: when the L + 2 payload-and-checksum bytes of a frame arrive in any  *)
(* partition into consecutive reads, the packet handed to the CRC16 check  *)
(* is the 4 header bytes followed by exactly those L + 2 bytes, of the     *)
(* same length and contents as after a single read.  Line 416 inserts the  *)
(* whole remain_buf into a data_buf that already has its full size, so a   *)
(* second read leaves the packet longer than 4 + L + 2.                    *)
(***************************************************************************)
C2_PacketIsHeaderThenPayload ==
  \A i \in Indices(rxTrace) :
    rxTrace[i].ev = "verify16" =>
      LET e == rxTrace[i]
          L == e.buf[3]
      IN  e.buf = Take(e.buf, HeaderSize) \o SubSeq(stream, e.at - (L + 2) + 1, e.at)

(***************************************************************************)
(* C3: on a stream of k non-sentinel bytes followed by a frame, with the   *)
(* link up (no receive has thrown), the receive loop consumes exactly      *)
(* those k bytes, one per read, before it reads the frame's sentinel, and  *)
(* the read after the sentinel is the header read at the byte right after  *)
(* it: no byte of the frame is lost to resynchronization.                  *)
(***************************************************************************)
C3_ResyncConsumesExactlyK ==
  NoRxThrow =>
  \A i \in Indices(Reads) :
    /\ i <= scenario.k + 1 =>
         /\ Reads[i].what = "sof" /\ Reads[i].at = i - 1 /\ Reads[i].n = 1
         /\ Reads[i].buf = <<stream[i]>>
    /\ i <= scenario.k => Reads[i].buf # <<SOF_RECEIVE>>
    /\ i = scenario.k + 1 => Reads[i].buf = <<SOF_RECEIVE>>
    /\ i = scenario.k + 2 => Reads[i].what = "header" /\ Reads[i].at = scenario.k + 1

\* the loop has dropped MaxGarbage bytes, matched the sentinel and is about to read the header
C3_Witness ==
  /\ scenario.k = MaxGarbage /\ scenario.variant = "valid"
  /\ rxPc = "header" /\ rxPos = MaxGarbage + 1 /\ Len(Reads) = MaxGarbage + 1
  /\ NoRxThrow /\ usb_is_ok_

(***************************************************************************)
(* C4: when a receive of the receive loop throws (sentinel, header,        *)
(* payload or reassembly read), the iteration ends there with usb_is_ok_   *)
(* false and nothing consumed or dispatched; and while the loop is at its  *)
(* health check with usb_is_ok_ false it does no transport I/O.            *)
(***************************************************************************)
RxThrew == rxPc # "catch" /\ rxPc' = "catch"

C4_ThrowStopsIoUntilFlagTrue ==
  [][/\ RxThrew => (rxPc' = "catch" /\ rxPos' = rxPos)
     /\ (rxPc = "catch" /\ rxPc' # rxPc) =>
          (~usb_is_ok_' /\ rxPc' = "loop" /\ rxTrace' = rxTrace /\ rxPos' = rxPos)
     /\ (rxPc = "loop" /\ ~usb_is_ok_) =>
          (rxPc' \in {"loop", "done"} /\ rxTrace' = rxTrace /\ rxPos' = rxPos)]_vars

\* a read in mid-payload threw, and a later iteration found the flag false and backed off
C4_Witness ==
  /\ scenario.k = 0 /\ scenario.variant = "valid" /\ rxPos \in 5..7
  /\ Last(rxTrace).ev = "read" /\ Last(rxTrace).what \in {"data", "remain"}
  /\ rxFault = "pending" /\ ~usb_is_ok_ /\ rxPc = "loop" /\ rxNotOk >= 1

(***************************************************************************)
(* C5: on a stream of non-sentinel bytes followed by one frame with the    *)
(* sentinel, a handled id and both checksums right, the receive loop calls *)
(* the sink of that id exactly once and no other sink.  A payload split    *)
(* over two reads (C2) or a short header read (C21) loses the frame.       *)
(***************************************************************************)
C5_ValidFrameDispatchedOnce ==
  (/\ scenario.variant = "valid" /\ ~scenario.tailed
   /\ NoRxThrow /\ rxPos = Len(stream) /\ rxPc = "loop")
    => /\ Len(Published) = 1
       /\ Published[1].n = ID_IMU
       /\ Published[1].buf = FirstFrame("valid")

(***************************************************************************)
(* C6: when a frame passes the header CRC8 check and fails the CRC16       *)
(* check, the loop dispatches nothing for it, leaves usb_is_ok_ as it is   *)
(* and resumes sentinel scanning at the byte right after the               *)
(* 4 + payload_length + 2 bytes of the frame.  After a header read that    *)
(* returned 2 bytes (C21) the loop has consumed one byte less.             *)
(***************************************************************************)
C6_Crc16FailureResumesAfterFrame ==
  [][(rxPc = "verify" /\ RxLogged("crc16_error")) =>
       /\ usb_is_ok_' = usb_is_ok_
       /\ Published' = Published
       /\ rxPc' = "loop"
       /\ rxPos' = rxTrace[SofBefore(Len(rxTrace) + 1)].at + HeaderSize + header_frame.len + 2]_vars

(***************************************************************************)
(* C9: when the header CRC8 check fails, the loop reads no payload or      *)
(* CRC16 byte of that frame, dispatches nothing, and its next read is the  *)
(* 1-byte sentinel read at the byte right after the 4 header bytes.  After *)
(* a header read that returned fewer than 3 bytes (C21) it resumes inside  *)
(* the header.                                                             *)
(***************************************************************************)
C9_Crc8FailureResumesAfterHeader ==
  [][(rxPc = "header" /\ RxLogged("crc8_error")) =>
       /\ Published' = Published
       /\ rxPc' = "loop"
       /\ rxPos' = Last(rxTrace).at + HeaderSize]_vars

(***************************************************************************)
(* C10: a frame that passes both checks and carries an id the switch has   *)
(* no case for causes no sink call and no checksum or I/O error report,    *)
(* leaves usb_is_ok_ as it is, and the loop goes on to its next iteration. *)
(***************************************************************************)
C10_UnknownIdOnlyWarns ==
  [][(/\ rxPc = "verify" /\ Len(rxTrace') = Len(rxTrace) + 2
      /\ rxTrace'[Len(rxTrace) + 1].what = "ok"
      /\ header_frame.id \notin HandledIds) =>
       /\ Last(rxTrace').ev = "log" /\ Last(rxTrace').what = "invalid_id"
       /\ Published' = Published
       /\ usb_is_ok_' = usb_is_ok_
       /\ rxPc' = "loop" /\ ~crashed']_vars

\* the frame with the unhandled id has been checked, warned about and dropped
C10_Witness ==
  /\ scenario.variant = "unknown_id"
  /\ Len(rxTrace) >= 2 /\ rxTrace[Len(rxTrace) - 1].what = "ok"
  /\ Last(rxTrace).what = "invalid_id" /\ Last(rxTrace).n = 200
  /\ rxPc = "loop" /\ usb_is_ok_ /\ Published = <<>>

(***************************************************************************)
(* C11: an iteration of the receive loop or of the send loop that finds    *)
(* usb_is_ok_ false at its health check does no transport read or write,   *)
(* and the send loop computes no checksum and builds no frame; it sleeps   *)
(* and is back at the loop test.                                           *)
(***************************************************************************)
C11_FlagFalseIterationOnlySleeps ==
  [][/\ (rxPc = "loop" /\ ok /\ ~usb_is_ok_ /\ rxVars' # rxVars) =>
          /\ rxPc' = "loop" /\ rxPos' = rxPos /\ rxTrace' = rxTrace /\ rxFault' = rxFault
          /\ rxNotOk' > rxNotOk
     /\ (txPc = "loop" /\ ok /\ ~usb_is_ok_ /\ txVars' # txVars) =>
          /\ txPc' = "loop" /\ txTrace' = txTrace /\ txPending' = txPending
          /\ send_robot_cmd_data_' = send_robot_cmd_data_ /\ send_data' = send_data
          /\ txNotOk' > txNotOk]_vars

\* both loops have run, and both have found the flag false and backed off
C11_Witness ==
  /\ ~usb_is_ok_ /\ ok /\ rxPc = "loop" /\ txPc = "loop"
  /\ rxNotOk >= 1 /\ txNotOk >= 1 /\ rxPos > 0 /\ Len(txTrace) >= 1

(***************************************************************************)
(* C12: after an open attempt of the supervisor (the one at start-up or a  *)
(* reopen) that throws, usb_is_ok_ is false when the supervisor begins the *)
(* sleep that follows the attempt.  After a failed attempt at start-up     *)
(* line 331 has set it true.                                               *)
(***************************************************************************)
C12_FailedOpenLeavesFlagFalse ==
  [][(spPc \in {"set_ok", "reopen"} /\ spPc' = "sleep" /\ ~lastOpenOk') => ~usb_is_ok_']_vars

(***************************************************************************)
(* C13: while the loops run, the port is opened and closed by steps of the *)
(* supervisor only; inside its loop the supervisor gets to the close and   *)
(* the reopen only from an iteration that found usb_is_ok_ false, and an   *)
(* iteration that finds it true changes neither the port nor the flag and  *)
(* goes to the sleep.                                                      *)
(***************************************************************************)
C13_OnlySupervisorOpensAndCloses ==
  [][/\ (portOpen' # portOpen /\ dtorPc' = dtorPc) =>
          /\ spPc \in {"first_open", "close", "reopen"} /\ spPc' # spPc
          /\ rxVars' = rxVars /\ txVars' = txVars
     /\ (spPc' = "close" /\ spPc # "close") => (spPc = "check" /\ ~usb_is_ok_)
     /\ (spPc' = "reopen" /\ spPc # "reopen") => spPc = "close"
     /\ (spPc = "check" /\ ok /\ usb_is_ok_ /\ spPc' # spPc) =>
          (spPc' = "sleep" /\ portOpen' = portOpen /\ usb_is_ok_' = usb_is_ok_)]_vars

\* after an open that followed a failed receive, the supervisor tests a true flag
C13_Witness ==
  /\ spPc = "check" /\ ok /\ usb_is_ok_ /\ portOpen /\ rxFault = "recovered"
  /\ rxPc \notin {"loop", "done"} /\ txPc \notin {"init", "loop", "done"}

(***************************************************************************)
(* C14: the destructor closes the port only when sendData, receiveData and *)
(* serialPortProtect have all returned and been joined, and no step of     *)
(* theirs follows the close.                                               *)
(***************************************************************************)
C14_CloseAfterAllJoined ==
  [][/\ dtorPc' = "closed" => (txPc = "done" /\ rxPc = "done" /\ spPc = "done")
     /\ dtorPc = "closed" =>
          (rxVars' = rxVars /\ txVars' = txVars /\ spVars' = spVars
             /\ usb_is_ok_' = usb_is_ok_)]_vars

\* the three threads ran, stopped, and the destructor closed the port they had open
C14_Witness ==
  /\ dtorPc = "closed" /\ ~portOpen /\ lastOpenOk /\ Len(Published) = 1 /\ Len(txTrace) >= 1

(***************************************************************************)
(* C15: once rclcpp::ok() is false, and provided no transport call hangs   *)
(* (every call returns or throws: the receive thread does not stay inside  *)
(* a receive with no byte to return and no error, and no call is made      *)
(* through a null port), serialPortProtect and sendData return, and so     *)
(* does receiveData, reassembly loop included, and the destructor gets     *)
(* through its three joins.                                                *)
(***************************************************************************)
ReadPcs == {"sof", "header", "data", "remain"}

\* the receive thread is inside a receive that has nothing to return and no error to throw
RxBlocked == rxPc \in ReadPcs /\ portInit /\ Avail = 0 /\ ~PortThrows

C15_LoopsExitAfterShutdown ==
  /\ ([]~crashed) => (~ok ~> (spPc = "done" /\ txPc = "done"))
  /\ ([]<>(~crashed /\ ~RxBlocked)) => (~ok ~> (rxPc = "done" /\ dtorPc \in {"close", "closed"}))

\* shutdown came while the receive thread was in mid-frame, and all three have returned
C15_Witness ==
  /\ ~ok /\ spPc = "done" /\ rxPc = "done" /\ txPc = "done" /\ dtorPc = "close"
  /\ rxPos \in 1..(Len(stream) - 1)

(***************************************************************************)
(* C16: a sentinel mismatch, a header CRC8 mismatch, a CRC16 mismatch and  *)
(* an unknown id leave usb_is_ok_ as it was and do not end the receive     *)
(* loop: the step that reports one of them ends at the loop test.          *)
(***************************************************************************)
C16_FramingErrorsKeepFlagAndLoop ==
  [][(\/ RxLogged("find_sof") \/ RxLogged("crc8_error")
      \/ RxLogged("crc16_error") \/ RxLogged("invalid_id")) =>
       (usb_is_ok_' = usb_is_ok_ /\ rxPc' = "loop" /\ ~crashed' /\ ok' = ok)]_vars

\* a dropped byte, then a frame dropped for its CRC16, and the loop is at its test again
C16_Witness ==
  /\ scenario.k >= 1 /\ scenario.variant = "bad_crc16"
  /\ Len(rxTrace) >= 2 /\ rxTrace[2].what = "find_sof" /\ Last(rxTrace).what = "crc16_error"
  /\ rxPc = "loop" /\ usb_is_ok_ /\ ok

(***************************************************************************)
(* C17: when the send of the send loop throws, nothing is written, the     *)
(* handler sets usb_is_ok_ false, the iteration does not send again, and   *)
(* the loop sleeps its 5 ms and is back at the loop test.                  *)
(***************************************************************************)
C17_SendThrowSetsFlagAndSleeps ==
  [][/\ (txPc = "send" /\ txPc' = "catch") => txTrace' = txTrace
     /\ (txPc = "catch" /\ txPc' # txPc) =>
          (~usb_is_ok_' /\ txPc' = "sleep" /\ txTrace' = txTrace)
     /\ (txPc = "sleep" /\ txPc' # txPc) => (txPc' = "loop" /\ txTrace' = txTrace)]_vars

\* a frame was written, a later send threw, and the loop is in its 5 ms sleep
C17_Witness ==
  /\ txPc = "sleep" /\ txPending /\ ~usb_is_ok_ /\ Len(txTrace) >= 1 /\ ok

(***************************************************************************)
(* C18: a loop whose transport call has thrown makes no further transport  *)
(* call until the supervisor has attempted an open after that failure.     *)
(* Line 331 sets usb_is_ok_ true again without any open, so a receive that *)
(* throws just after the first open is followed by another receive.        *)
(***************************************************************************)
C18_NoIoBeforeReopen ==
  /\ ~(rxFault = "pending" /\ rxPc \in ReadPcs)
  /\ ~(txPending /\ txPc = "send")

C20_SinkCallFollowsAllChecks ==
  \A i \in Indices(rxTrace) :
    rxTrace[i].ev = "publish" =>
      LET e == rxTrace[i]
          j == SofBefore(i)
      IN  /\ j > 0 /\ i - 1 > j
          /\ rxTrace[i - 1].ev = "verify16" /\ rxTrace[i - 1].what = "ok"
          /\ rxTrace[i - 1].buf = e.buf
          /\ \A m \in (j + 1)..(i - 2) :
               rxTrace[m].ev = "read" /\ rxTrace[m].what \in {"header", "data", "remain"}
          /\ e.buf[1] = SOF_RECEIVE
          /\ verify_CRC8_check_sum(Take(e.buf, HeaderSize))
          /\ verify_CRC16_check_sum(e.buf)
          /\ e.n = e.buf[2] /\ e.n \in PublishedIds
          /\ i < Len(rxTrace) => rxTrace[i + 1].what = "sof"

\* two frames of different kinds were dispatched, one sink call each
C20_Witness ==
  /\ scenario.tailed /\ scenario.variant = "valid" /\ Len(Published) = 2
  /\ Published[1].n = ID_IMU /\ Published[2].n = ID_GAME_STATUS

(***************************************************************************)
(* C21: after a sentinel match, the header the receive loop decodes and    *)
(* checks with CRC8 is the sentinel followed by exactly the next 3 bytes   *)
(* of the inbound stream, also when the transport returns fewer than 3     *)
(* bytes to the header read, and the payload read starts at the stream     *)
(* byte right after those 3 bytes.  Line 393 issues one receive and drops  *)
(* its return value.                                                       *)
(***************************************************************************)
C21_HeaderIsNextThreeBytes ==
  \A i \in Indices(rxTrace) :
    (rxTrace[i].ev = "read" /\ rxTrace[i].what = "header"
       /\ rxTrace[i].at + HeaderSize - 1 <= Len(stream)) =>
      LET at  == rxTrace[i].at
          hdr == <<SOF_RECEIVE>> \o SubSeq(stream, at + 1, at + HeaderSize - 1)
      IN  /\ (i < Len(rxTrace) /\ rxTrace[i + 1].ev = "log") =>
               /\ rxTrace[i + 1].what = "crc8_error"
               /\ rxTrace[i + 1].buf = hdr
          /\ (i < Len(rxTrace) /\ rxTrace[i + 1].ev = "read") =>
               /\ rxTrace[i + 1].what = "data"
               /\ rxTrace[i + 1].at = at + HeaderSize - 1
          /\ (i = Len(rxTrace) /\ rxPc = "data") =>
               /\ header_frame_buf = hdr
               /\ rxPos = at + HeaderSize - 1

(***************************************************************************)
(* C22: every frame the send loop writes starts with SOF_SEND, carries     *)
(* ID_ROBOT_CMD, a len equal to the size of the frame minus 6 (4 header    *)
(* bytes, 2 CRC16 bytes) and a CRC8 byte that matches its header; no store *)
(* of updateCmdVel, at any point and also before sendData has written the  *)
(* header, changes the header bytes of the record.                         *)
(***************************************************************************)
C22_WrittenHeaderIsFixed ==
  /\ [](\A i \in Indices(txTrace) :
          LET f == txTrace[i].buf
          IN  /\ f[1] = SOF_SEND
              /\ f[2] = ID_ROBOT_CMD
              /\ f[3] = Len(f) - 6
              /\ verify_CRC8_check_sum(Take(f, HeaderSize)))
  /\ [][cmdPc' # cmdPc =>
          Take(send_robot_cmd_data_', HeaderSize) = Take(send_robot_cmd_data_, HeaderSize)]_vars

\* two frames were written, the later one with the speed vector of a call that
\* changed the record
C22_Witness ==
  /\ Len(txTrace) = MaxSends /\ Len(cmdCalls) >= 1 /\ cmdPc = "idle"
  /\ Last(cmdCalls) # cmdInit
  /\ SpeedVector(Last(txTrace).buf) = Last(cmdCalls)
  /\ SpeedVector(txTrace[1].buf) = cmdInit

(***************************************************************************)
(* C23: a frame that passes CRC8 and CRC16 and carries an id the switch    *)
(* has a case for, but whose len is not the payload size of that kind, is  *)
(* a decode failure: the receive loop calls no sink for it and goes on     *)
(* with the next iteration.  The failure of fromVector reaches the handler *)
(* of line 485, which ends the iteration; fromVector sees the buffer that  *)
(* the reassembly loop built (C2), not payload_length.                     *)
(***************************************************************************)
C23_MalformedPayloadNotDispatched ==
  [][/\ (/\ rxPc = "verify" /\ rxPc' # "verify"
         /\ verify_CRC8_check_sum(header_frame_buf)
         /\ verify_CRC16_check_sum(Insert(data_buf, 0, header_frame_buf))
         /\ header_frame.id \in HandledIds
         /\ header_frame.len # PayloadSize(header_frame.id)) =>
          /\ Published' = Published
          /\ rxPc' \in {"catch", "loop"}
     /\ (rxPc = "catch" /\ rxPc' # "catch") =>
          /\ Published' = Published
          /\ rxPc' = "loop"]_vars

(***************************************************************************)
(* C24: while usb_is_ok_ stays false over several consecutive iterations   *)
(* of receiveData or of sendData, the loop prints its "usb is not ok!"     *)
(* line once, for the change from true to false, and not again in each     *)
(* following iteration that finds the flag still false.  rxNotOk and       *)
(* txNotOk count the lines printed by consecutive iterations (lines 374    *)
(* and 777).                                                               *)
(***************************************************************************)
C24_LinkDownLoggedOncePerTransition ==
  /\ rxNotOk <= 1
  /\ txNotOk <= 1

(***************************************************************************)
(* C25: in every interleaving of the three threads at start-up,            *)
(* receiveData and sendData issue no transport read or write before        *)
(* serialPortProtect has initialized the port and finished its first open  *)
(* attempt, and the value of usb_is_ok_ a loop reads at its health check   *)
(* has been written by the supervisor.  The constructor starts the three   *)
(* threads at once and bool usb_is_ok_ has no initializer.                 *)
(***************************************************************************)
C25_NoIoBeforeFirstOpenAttempt ==
  [][(\/ rxPc \in ReadPcs /\ rxPc' # rxPc             \* a receive returned or threw
      \/ txPc = "send" /\ txPc' # txPc                \* a send returned or threw
      \/ crashed' # crashed                           \* a call through the null port
      \/ rxPc = "loop" /\ (rxPc' = "sof" \/ rxNotOk' # rxNotOk)    \* line 373 read the flag
      \/ txPc = "loop" /\ (txPc' = "crc" \/ txNotOk' # txNotOk))   \* line 776 read the flag
       => spPc \notin {"init_port", "first_open"}]_vars

(***************************************************************************)
(* C26: the supervisor's close and reopen of the port (lines 337-341)      *)
(* never happen while receiveData or sendData is between its own health    *)
(* check and the completion of a transport read or write started after     *)
(* that check.  The three threads share no lock; the supervisor acts on    *)
(* the flag alone.                                                         *)
(***************************************************************************)
C26_NoReopenDuringIo ==
  [][(spPc \in {"close", "reopen"} /\ spPc' # spPc) =>
       /\ rxPc \notin ReadPcs
       /\ txPc \notin {"crc", "to_vector", "send"}]_vars

\* the index in rxTrace of the header read of the iteration in progress
HeaderReadIndex ==
  CHOOSE j \in Indices(rxTrace) :
    /\ rxTrace[j].ev = "read" /\ rxTrace[j].what = "header"
    /\ \A m \in (j + 1)..Len(rxTrace) : rxTrace[m].ev = "read" /\ rxTrace[m].what # "header"

\* the reads into data_buf and remain_buf the iteration in progress has made
PayloadReads == Len(rxTrace) - HeaderReadIndex

(***************************************************************************)
(* C27: in the reassembly loop of lines 407-419 remain_len never becomes   *)
(* negative and received_len_sum never exceeds header_frame.len + 2; as    *)
(* every read returns at least one byte, the loop ends after at most       *)
(* len + 2 reads, with received_len_sum equal to len + 2.                  *)
(***************************************************************************)
C27_ReassemblyCountsStayInRange ==
  rxPc \in {"remain", "verify"} =>
    /\ remain_len >= 0
    /\ received_len_sum <= header_frame.len + 2
    /\ received_len_sum + remain_len = header_frame.len + 2
    /\ received_len_sum = rxPos - (rxTrace[HeaderReadIndex].at + rxTrace[HeaderReadIndex].n)
    /\ PayloadReads >= 1 /\ PayloadReads <= received_len_sum
    /\ rxPc = "remain" => remain_len > 0
    /\ rxPc = "verify" => (remain_len = 0 /\ received_len_sum = header_frame.len + 2)

\* a 2-byte payload and its CRC16 arrived one byte per read: the loop ended after
\* len + 2 reads
C27_Witness ==
  /\ rxPc = "verify" /\ header_frame.len = 2
  /\ PayloadReads = header_frame.len + 2
  /\ received_len_sum = header_frame.len + 2 /\ remain_len = 0

====
